---- MODULE Spec2Model ----
(***************************************************************************)
(* AdGen AI: the generation orchestration of src/services/aiService.ts     *)
(* (both revisions kept in the file), src/services/marketingpostService.ts *)
(* and the handlers of src/pages/CreateAd.tsx.                             *)
(*                                                                         *)
(* Remote services (completion endpoint, streamed image generation, video  *)
(* jobs, object storage, relational storage) are the environment: every    *)
(* call draws its outcome from a small set with \E.                        *)
(***************************************************************************)
EXTENDS Integers, Sequences, FiniteSets, TLC

VARIABLES
    \* ---- AIService fields (constructor, aiService.ts:66-90 / 943-971)
    revision,          \* 1: first revision of aiService.ts, 2: second revision
    openaiApiKey,      \* TRUE iff VITE_OPENAI_API_KEY is a non-empty string
    googleApiKey,      \* TRUE iff VITE_GOOGLE_API_KEY is a non-empty string
    googleGenAI,       \* TRUE iff this.googleGenAI is not null
    \* ---- generateVariationPromptsWithOpenAI applied to one response
    promptResponse,    \* the completion response handed to the parser
    promptResult,      \* what the call did with it
    \* ---- aiService.generateImageVariations, one call
    ivPc,              \* "idle" | "loop" | "returned" | "thrown"
    ivUserId,          \* TRUE iff a userId was passed
    variationPrompts,  \* the prompts the loop runs over
    promptSource,      \* "none" | "openai" | "default"
    ivIdx,             \* number of prompts the loop has finished
    generatedImages,   \* the list built so far, returned at the end
    imageRequests,     \* names of the prompts sent to the image endpoint
    ivLog,             \* what the environment answered per prompt
    \* ---- marketingPostService.generateImageVariations, one call
    mpPc,              \* "idle" | "loop" | "returned"
    mpIdx,
    variations,
    mpLog,
    \* ---- storage backend
    storageObjects,    \* objects uploaded to the generated-images bucket
    imageVariationRows, \* rows inserted into image_variations
    videoObjects,      \* objects uploaded to the generated-videos bucket
    videoRows,         \* rows inserted into videos
    \* ---- analyzeImageWithGPT4oMini, the last invocation
    lastAnalysis,
    analysisRequests,  \* analysis requests sent by the running handleGenerate or generateAd
    \* ---- generateVideoWithVeo, one call
    veoPc,             \* "idle" | "wait" | "poll" | "returned" | "thrown"
    operation,         \* the job handle: done, and whether it carries a video uri
    attempts,          \* the loop counter of aiService.ts:534
    veoWaits,          \* 10-second waits made by this call
    veoPolls,          \* getVideosOperation requests made by this call
    videoPrompt,       \* the prompt createVideoPrompt built
    veoResult,         \* what the call returned
    veoError,          \* the error the call caught or threw, "none" without one
    \* ---- generateVideo, one call
    gvPc,              \* "idle" | "submit" | "loop" | "poll" | "returned"
    gvOperation,
    gvResult,
    \* ---- CreateAd component state (CreateAd.tsx:16-37)
    step, uploadedImage, includeVideoEffects, isGenerating, generationResult,
    videoPrompts, selectedVideoPrompt, isGeneratingVideo, generatedVideo,
    user,              \* TRUE iff a user is signed in
    toasts,            \* titles of the notifications of the running handler
    hgPc,              \* handleGenerate: "idle" | "analyze" | "simple" | "video"
    \* ---- CreateAd upload step (CreateAd.tsx:56-110, 377-443)
    imagePreview,      \* TRUE iff a preview data url is set
    readerBusy,        \* a FileReader of the page has not fired onload yet
    isLoadingVariations,
    imageVariations,   \* the list shown at step 2
    uploadsInFlight,   \* invocations of handleImageUpload awaiting their call
    pendingFiles,      \* the files of those invocations, numbered as chosen
    selectedFile,      \* the file uploadedImage holds, 0 for null
    shownFor,          \* the file imageVariations was set for, 0 for none
    filesSelected,     \* files chosen in the file inputs so far
    lastFile,          \* the page and the size of the last file chosen
    \* ---- aiService.generateAd, one call
    gaPc,              \* "idle" | "analyze" | "variations" | "video" | "returned"
    gaRequest,         \* skipVariations, includeVideoEffects
    gaResult,
    \* ---- MarketingPost page and marketingPostService.generateMarketingPost
    mkUploadedImage, mkImagePreview, mkReaderBusy, showUploadModal, mkIsGenerating,
    gmpPc,             \* "idle" | "analyze" | "content" | "variations"
    marketingPostRows, \* marketing posts saved; the post saved n-th has id n
    deletedPosts,      \* ids of the marketing_post rows removed from the table
    marketingPosts,    \* ids of the posts the MarketingPost page lists
    deleteReported,    \* ids of the posts whose delete ended with 'Deleted'
    \* ---- fence stripping of a completion response
    fenceText,         \* the JSON text, its fence and the whitespace around them
    stripped,          \* what each parser made of it
    \* ---- the chunk loop of one image request (aiService.ts:385-435)
    chunkStream,       \* the chunks the response stream yields
    chunksRead,        \* chunks the loop has taken from the stream
    retained,          \* indices of the chunks whose image was pushed
    streamPc           \* "idle" | "reading" | "done"

varsConfig == <<revision, openaiApiKey, googleApiKey, googleGenAI>>
varsPrompt == <<promptResponse, promptResult>>
varsIv == <<ivPc, ivUserId, variationPrompts, promptSource, ivIdx,
            generatedImages, imageRequests, ivLog>>
varsMp == <<mpPc, mpIdx, variations, mpLog>>
varsBackend == <<storageObjects, imageVariationRows, videoObjects, videoRows>>
varsVeo == <<veoPc, operation, attempts, veoWaits, veoPolls, videoPrompt, veoResult, veoError>>
varsGv == <<gvPc, gvOperation, gvResult>>
varsPage == <<step, uploadedImage, includeVideoEffects, isGenerating, generationResult,
              videoPrompts, selectedVideoPrompt, isGeneratingVideo, generatedVideo,
              user, toasts, hgPc>>
varsVideo == <<lastAnalysis, analysisRequests, varsVeo, varsGv, varsPage>>
varsUpload == <<imagePreview, readerBusy, isLoadingVariations, imageVariations,
                uploadsInFlight, pendingFiles, selectedFile, shownFor, filesSelected, lastFile>>
varsGa == <<gaPc, gaRequest, gaResult>>
varsMk == <<mkUploadedImage, mkImagePreview, mkReaderBusy, showUploadModal,
            mkIsGenerating, gmpPc, marketingPostRows, deletedPosts, marketingPosts,
            deleteReported>>
varsFence == <<fenceText, stripped>>
varsStream == <<chunkStream, chunksRead, retained, streamPc>>
varsSession == <<varsUpload, varsGa, varsMk, varsFence, varsStream>>

----------------------------------------------------------------------------
(* Bounds of the model *)

\* longest JSON array a prompt-generation response carries
MaxRespLen == 4
\* longest chunk stream an image-generation call yields
MaxChunks == 2
\* files chosen in the file inputs of the two pages in one run
MaxFiles == 2
\* longest JSON text of a fenced completion response, in tokens
MaxTextLen == 4

\* longest response stream the chunk loop is run on
MaxStreamLen == 4

----------------------------------------------------------------------------
(* Values *)

Undefined == "<undefined>"

\* sequences over S of length 0..n
SeqUpTo(S, n) == UNION {[1..k -> S] : k \in 0..n}

\* the || defaults of aiService.ts:311-313
DefaultName == "Generated Style"
DefaultPromptText == "Transform this product with creative styling"
DefaultDescription == "AI-generated variation"

\* One element of the parsed JSON array.  obj = FALSE is an element on which
\* a property read throws (null); an empty string stands for every falsy
\* field value (missing, null, "").
Entry(o, n, p, d) == [obj |-> o, name |-> n, prompt |-> p, description |-> d]

\* The completion call: ok = FALSE is a rejected fetch, a non-2xx status or
\* an unreadable file; otherwise the message content after fence stripping is
\* unparsable, parses to a non-array value, or parses to an array.
Response(ok, kind, items) == [ok |-> ok, kind |-> kind, items |-> items]

Thrown == [thrown |-> TRUE, prompts |-> <<>>]
Returned(ps) == [thrown |-> FALSE, prompts |-> ps]

\* aiService.ts:310-314: p => ({ name: p.name || ..., ... })
MapPrompt(p) ==
    [name |-> IF p.name = "" THEN DefaultName ELSE p.name,
     prompt |-> IF p.prompt = "" THEN DefaultPromptText ELSE p.prompt,
     description |-> IF p.description = "" THEN DefaultDescription ELSE p.description]

\* aiService.ts:309: Array.isArray(prompts) && prompts.length >= 3
ValidPromptArray(resp) == resp.kind = "array" /\ Len(resp.items) >= 3

\* the slice left out: the whole array is mapped
SlicePrompts_NoCut(items) == items

\* aiService.ts:310: prompts.slice(0, 3)
SlicePrompts(items) == SubSeq(items, 1, 3)

\* aiService.ts:226-322 (1118-1216 in the second revision, same code)
GenerateVariationPromptsWithOpenAI(resp) ==
    IF ~openaiApiKey THEN Thrown
    ELSE IF ~resp.ok THEN Thrown
    ELSE IF resp.kind = "unparsable" THEN Thrown
    ELSE IF ~ValidPromptArray(resp) THEN Thrown
    ELSE LET cut == SlicePrompts(resp.items)
         IN  IF \E i \in 1..Len(cut) : ~cut[i].obj THEN Thrown
             ELSE Returned([i \in 1..Len(cut) |-> MapPrompt(cut[i])])

----------------------------------------------------------------------------
(* generateVariationPromptsWithOpenAI as a function of the response *)

PromptFieldNames == {"", "A", "B"}
PromptEntries ==
    {Entry(TRUE, n, p, d) : n \in PromptFieldNames, p \in {"", "P"}, d \in {"", "D"}}
        \cup {Entry(FALSE, "", "", "")}

PromptResponses ==
    {Response(FALSE, "none", <<>>), Response(TRUE, "unparsable", <<>>),
     Response(TRUE, "object", <<>>)}
        \cup {Response(TRUE, "array", items) : items \in SeqUpTo(PromptEntries, MaxRespLen)}

NotCalled == [called |-> FALSE, thrown |-> FALSE, prompts |-> <<>>]

\* one call of generateVariationPromptsWithOpenAI on promptResponse
CallPromptGenerator ==
    /\ ~promptResult.called
    /\ LET r == GenerateVariationPromptsWithOpenAI(promptResponse)
       IN  promptResult' = [called |-> TRUE, thrown |-> r.thrown, prompts |-> r.prompts]
    /\ UNCHANGED <<promptResponse, varsConfig, varsSession, varsIv, varsMp, varsBackend, varsVideo>>

----------------------------------------------------------------------------
(* Image variation generation *)

ChunkKinds == {"noInlineData", "emptyData", "image"}

\* What generateContentStream does for one prompt: the call rejects, or it
\* yields a stream of chunks.
StreamError == [call |-> "error", chunks |-> <<>>]
Streams == {StreamError} \cup {[call |-> "ok", chunks |-> c] : c \in SeqUpTo(ChunkKinds, MaxChunks)}

\* index of the first chunk with non-empty inline data, 0 if there is none
\* (aiService.ts:387-392, marketingpostService.ts:220-225)
FirstImage(chunks) ==
    IF \E i \in 1..Len(chunks) : chunks[i] = "image"
    THEN CHOOSE i \in 1..Len(chunks) :
            chunks[i] = "image" /\ \A j \in 1..(i - 1) : chunks[j] # "image"
    ELSE 0

HasImage(stream) == stream.call = "ok" /\ FirstImage(stream.chunks) > 0

PublicUrl(name) == [kind |-> "public", name |-> name]
BlobUrl(name) == [kind |-> "blob", name |-> name]

\* aiService.ts:1245-1261, the built-in prompts of the second revision
DefaultVariationPrompts ==
    << [name |-> "Modern Minimal", prompt |-> "modern minimal", description |-> "Clean and contemporary design"],
       [name |-> "Bold Dynamic", prompt |-> "bold dynamic", description |-> "Strong visual impact"],
       [name |-> "Luxury Premium", prompt |-> "luxury premium", description |-> "High-end aesthetic"] >>

\* the responses the variation runs draw from
StyleEntry(i) ==
    Entry(TRUE, <<"Style 1", "Style 2", "Style 3", "Style 4", "Style 5">>[i],
          <<"prompt 1", "prompt 2", "prompt 3", "prompt 4", "prompt 5">>[i], "d")
VariationResponses ==
    {Response(FALSE, "none", <<>>), Response(TRUE, "unparsable", <<>>),
     Response(TRUE, "object", <<>>)}
        \cup {Response(TRUE, "array", [i \in 1..k |-> StyleEntry(i)]) : k \in 2..MaxRespLen}

\* aiService.ts:332-346 (first revision) and 1229-1262 (second revision):
\* the prompts the loop will run over, or a throw
ResolveVariationPrompts(resp) ==
    LET r == IF openaiApiKey THEN GenerateVariationPromptsWithOpenAI(resp) ELSE Thrown
        got == IF r.thrown THEN <<>> ELSE r.prompts
    IN  IF Len(got) # 0 THEN [thrown |-> FALSE, prompts |-> got, source |-> "openai"]
        ELSE IF revision = 1 THEN [thrown |-> TRUE, prompts |-> <<>>, source |-> "none"]
        ELSE [thrown |-> FALSE, prompts |-> DefaultVariationPrompts, source |-> "default"]

\* aiService.ts:351 / 1269
GoogleAvailable == googleGenAI /\ googleApiKey

\* aiService.generateImageVariations up to the loop (aiService.ts:324-358)
IvStart(uid, resp) ==
    /\ ivPc = "idle" /\ mpPc = "idle"
    /\ promptResponse' = resp
    /\ ivUserId' = uid
    /\ LET r == ResolveVariationPrompts(resp)
       IN  /\ variationPrompts' = r.prompts
           /\ promptSource' = r.source
           /\ ivPc' = IF r.thrown \/ ~GoogleAvailable THEN "thrown" ELSE "loop"
    /\ ivIdx' = 0
    /\ generatedImages' = <<>>
    /\ imageRequests' = <<>>
    /\ ivLog' = <<>>
    /\ UNCHANGED <<promptResult, varsConfig, varsSession, varsMp, varsBackend, varsVideo>>

\* where the url of a generated image comes from (aiService.ts:402-413)
IvImageUrl(name, uploadOk) ==
    IF ivUserId
    THEN IF uploadOk THEN PublicUrl(name) ELSE BlobUrl(name)
    ELSE BlobUrl(name)

\* a failed prompt: the inner catch rethrows and the outer catch rethrows
\* (aiService.ts:437-451), which ends the call
IvAfterFailure == "thrown"

LogEntry(name, stream, upload) ==
    [name |-> name, image |-> HasImage(stream), upload |-> upload]

\* one iteration of the loop of aiService.ts:360-444, and the return of 446
\* after the last one
IvPrompt(stream, uploadOk, dbOk) ==
    /\ ivPc = "loop"
    /\ ivIdx < Len(variationPrompts)
    /\ LET p == variationPrompts[ivIdx + 1]
           url == IvImageUrl(p.name, uploadOk)
       IN  /\ imageRequests' = Append(imageRequests, p.name)
           /\ ivIdx' = ivIdx + 1
           /\ IF HasImage(stream)
              THEN /\ generatedImages' =
                        Append(generatedImages,
                               [url |-> url, style |-> p.name, description |-> p.description])
                   /\ storageObjects' =
                        IF ivUserId /\ uploadOk THEN storageObjects \cup {p.name}
                        ELSE storageObjects
                   /\ imageVariationRows' =
                        IF ivUserId /\ dbOk
                        THEN imageVariationRows \cup
                                {[variation_name |-> p.name, generated_image_url |-> url]}
                        ELSE imageVariationRows
                   /\ ivLog' = Append(ivLog,
                        LogEntry(p.name, stream,
                                 IF ~ivUserId THEN "none" ELSE IF uploadOk THEN "ok" ELSE "failed"))
                   /\ ivPc' = IF ivIdx + 1 = Len(variationPrompts) THEN "returned" ELSE "loop"
              ELSE /\ ivLog' = Append(ivLog, LogEntry(p.name, stream, "none"))
                   /\ ivPc' = IvAfterFailure
                   /\ UNCHANGED <<generatedImages, storageObjects, imageVariationRows>>
    /\ UNCHANGED <<ivUserId, variationPrompts, promptSource, varsPrompt, varsConfig, varsSession, varsMp,
                   videoObjects, videoRows, varsVideo>>

\* marketingpostService.ts:176-192
MarketingVariationPrompts ==
    << [name |-> "Modern Minimal", prompt |-> "modern, minimalist version", description |-> "Clean and modern aesthetic"],
       [name |-> "Vibrant Lifestyle", prompt |-> "vibrant, lifestyle-focused version", description |-> "Vibrant and lifestyle-oriented"],
       [name |-> "Luxury Premium", prompt |-> "luxury, premium version", description |-> "Luxury and premium feel"] >>

\* marketingPostService.generateImageVariations up to the loop
\* (marketingpostService.ts:174-194)
MpStart ==
    /\ mpPc = "idle" /\ ivPc = "idle"
    /\ mpPc' = "loop"
    /\ mpIdx' = 0
    /\ variations' = <<>>
    /\ mpLog' = <<>>
    /\ UNCHANGED <<varsPrompt, varsConfig, varsSession, varsIv, varsBackend, varsVideo>>

\* one iteration of the loop of marketingpostService.ts:196-255, and the
\* return of 257 after the last one.  The upload of line 236 is inside the
\* try: when it throws, the catch of 252 logs and the loop goes on.
MpPrompt(stream, uploadOk) ==
    /\ mpPc = "loop"
    /\ mpIdx < Len(MarketingVariationPrompts)
    /\ LET p == MarketingVariationPrompts[mpIdx + 1]
       IN  /\ mpIdx' = mpIdx + 1
           /\ mpLog' = Append(mpLog,
                LogEntry(p.name, stream,
                         IF ~HasImage(stream) THEN "none" ELSE IF uploadOk THEN "ok" ELSE "failed"))
           /\ IF HasImage(stream) /\ uploadOk
              THEN /\ variations' =
                        Append(variations,
                               [url |-> PublicUrl(p.name), style |-> p.name,
                                description |-> p.description])
                   /\ storageObjects' = storageObjects \cup {p.name}
              ELSE UNCHANGED <<variations, storageObjects>>
           /\ mpPc' = IF mpIdx + 1 = Len(MarketingVariationPrompts) THEN "returned" ELSE "loop"
    /\ UNCHANGED <<imageVariationRows, varsPrompt, varsConfig, varsSession, varsIv,
                   videoObjects, videoRows, varsVideo>>

\* the caller has taken the result (or the error); the next call starts with
\* nothing uploaded yet
VariationsDone ==
    /\ ivPc \in {"returned", "thrown"} \/ mpPc = "returned"
    /\ ivPc' = "idle" /\ mpPc' = "idle"
    /\ ivIdx' = 0 /\ mpIdx' = 0
    /\ variationPrompts' = <<>> /\ promptSource' = "none"
    /\ generatedImages' = <<>> /\ imageRequests' = <<>> /\ ivLog' = <<>>
    /\ variations' = <<>> /\ mpLog' = <<>>
    /\ storageObjects' = {} /\ imageVariationRows' = {}
    /\ UNCHANGED <<ivUserId, varsPrompt, varsConfig, varsSession, videoObjects, videoRows, varsVideo>>

----------------------------------------------------------------------------
(* Image analysis *)

\* analyzeImageWithGPT4oMini: aiService.ts:163-223 in the first revision,
\* 1047-1116 in the second.  resp is what the completion endpoint does
\* with the request, when one is sent.
AnalyzeImageWithGPT4oMini(resp) ==
    IF ~openaiApiKey
    THEN IF revision = 1
         THEN [outcome |-> "configError", requestSent |-> FALSE]
         ELSE [outcome |-> "mock", requestSent |-> FALSE]
    ELSE IF resp = "ok"
         THEN [outcome |-> "analysis", requestSent |-> TRUE]
         ELSE [outcome |-> "error", requestSent |-> TRUE]

AnalysisThrows(a) == a.outcome \in {"configError", "error"}

NoAnalysis == [outcome |-> "none", requestSent |-> FALSE]

----------------------------------------------------------------------------
(* generateVideoWithVeo *)

FallbackVideoUrl == "https://commondatastorage.googleapis.com/gtv-videos-bucket/sample/BigBuckBunny.mp4"
FallbackVideoPrompt == "Fallback video due to generation error"
VideoBlobUrl == "blob:video"

\* aiService.ts:533
maxAttempts == 12

\* aiService.ts:593-599: one of three base prompts, drawn at random
basePrompts == <<"Elegant showcase", "Dynamic 360 rotation", "Creative reveal">>
createVideoPrompt(b) == basePrompts[b]

Pending == [done |-> FALSE, uri |-> FALSE]
Done(hasUri) == [done |-> TRUE, uri |-> hasUri]
JobStates == {Pending, Done(TRUE), Done(FALSE)}

NoVeoResult == [videoUrl |-> Undefined, videoPrompt |-> Undefined]

\* a catch block that returns no url and no prompt
VeoCatch_Empty == [videoUrl |-> Undefined, videoPrompt |-> ""]

\* the catch block of aiService.ts:581-587
VeoCatch == [videoUrl |-> FallbackVideoUrl, videoPrompt |-> FallbackVideoPrompt]

\* the loop condition with the ceiling off by one
VeoLoopCond_OffByOne(op, n) == ~op.done /\ n <= maxAttempts

\* the loop condition of aiService.ts:536
VeoLoopCond(op, n) == ~op.done /\ n < maxAttempts

\* aiService.ts:511-529: the client check, the prompt, the encoding and the
\* job submission.  rejected is an unreadable file or a rejected
\* generateVideos call; job is the handle an accepted submission returns.
VeoBegin(b, rejected, job) ==
    /\ attempts' = 0 /\ veoWaits' = 0 /\ veoPolls' = 0
    /\ IF ~googleGenAI
       THEN /\ veoPc' = "thrown" /\ veoError' = "notInitialized"
            /\ veoResult' = NoVeoResult /\ operation' = Pending
            /\ videoPrompt' = Undefined
       ELSE /\ videoPrompt' = createVideoPrompt(b)
            /\ IF rejected
               THEN /\ veoPc' = "returned" /\ veoError' = "submit"
                    /\ veoResult' = VeoCatch /\ operation' = Pending
               ELSE /\ veoPc' = "loop" /\ veoError' = "none"
                    /\ veoResult' = NoVeoResult
                    /\ operation' = job

\* aiService.ts:536-538: the loop condition holds, the call waits 10 seconds
VeoWait ==
    /\ veoPc = "loop"
    /\ VeoLoopCond(operation, attempts)
    /\ veoPc' = "poll"
    /\ veoWaits' = veoWaits + 1
    /\ UNCHANGED <<operation, attempts, veoPolls, videoPrompt, veoResult, veoError>>
    /\ UNCHANGED <<varsConfig, varsSession, varsPrompt, varsIv, varsMp, varsBackend, lastAnalysis, analysisRequests,
                   varsGv, varsPage>>

\* aiService.ts:540-544: one status request; a rejected one is caught at 581
VeoPoll(rejected, answer) ==
    /\ veoPc = "poll"
    /\ veoPolls' = veoPolls + 1
    /\ IF rejected
       THEN /\ veoPc' = "returned" /\ veoError' = "poll" /\ veoResult' = VeoCatch
            /\ UNCHANGED <<operation, attempts>>
       ELSE /\ operation' = answer
            /\ attempts' = attempts + 1
            /\ veoPc' = "loop"
            /\ UNCHANGED <<veoResult, veoError>>
    /\ UNCHANGED <<veoWaits, videoPrompt>>
    /\ UNCHANGED <<varsConfig, varsSession, varsPrompt, varsIv, varsMp, varsBackend, lastAnalysis, analysisRequests,
                   varsGv, varsPage>>

\* aiService.ts:547-587: after the loop
VeoAfterLoop(fetchOk) ==
    /\ veoPc = "loop"
    /\ ~VeoLoopCond(operation, attempts)
    /\ veoPc' = "returned"
    /\ IF ~operation.done
       THEN veoError' = "timeout" /\ veoResult' = VeoCatch
       ELSE IF ~operation.uri
       THEN veoError' = "noVideo" /\ veoResult' = VeoCatch
       ELSE IF ~fetchOk
       THEN veoError' = "fetch" /\ veoResult' = VeoCatch
       ELSE /\ veoError' = "none"
            /\ veoResult' = [videoUrl |-> VideoBlobUrl, videoPrompt |-> videoPrompt]
    /\ UNCHANGED <<operation, attempts, veoWaits, veoPolls, videoPrompt>>
    /\ UNCHANGED <<varsConfig, varsSession, varsPrompt, varsIv, varsMp, varsBackend, lastAnalysis, analysisRequests,
                   varsGv, varsPage>>

----------------------------------------------------------------------------
(* CreateAd.handleGenerate, with generateVideoSimple *)

\* generationResult = null; a result carries the list shown at step 2
\* (CreateAd.tsx:268)
NoResult == [status |-> "null", videoUrl |-> Undefined, videoPrompt |-> Undefined,
             generatedImages |-> <<>>]

Falsy(x) == x = Undefined \/ x = ""

\* the catch and finally of CreateAd.tsx:330-338
HgCatch ==
    /\ toasts' = toasts \cup {"Error"}
    /\ isGenerating' = FALSE
    /\ hgPc' = "idle"
    /\ UNCHANGED <<step, generationResult>>

\* CreateAd.tsx:265-338: the result, the hard fallback, the save of the
\* video and the notifications.  save is what fetching and uploading the
\* video does.
HgTail(video, save) ==
    LET fallback == Falsy(video.videoUrl) /\ includeVideoEffects
        url == IF fallback THEN FallbackVideoUrl ELSE video.videoUrl
        prompt == IF fallback /\ video.videoPrompt = Undefined
                  THEN "Sample video (fallback)" ELSE video.videoPrompt
        saved == ~Falsy(url) /\ user /\ save = "ok"
    IN  /\ generationResult' = [status |-> "completed", videoUrl |-> url,
                                 videoPrompt |-> prompt, generatedImages |-> imageVariations]
        /\ videoObjects' = IF saved THEN videoObjects \cup {"user-videos"} ELSE videoObjects
        /\ toasts' = toasts \cup (IF saved THEN {"Success"} ELSE {}) \cup {"Generation complete!"}
        /\ step' = 4
        /\ isGenerating' = FALSE
        /\ hgPc' = "idle"

\* CreateAd.tsx:223-243
HgBegin ==
    /\ hgPc = "idle" /\ gvPc = "idle" /\ ~isGeneratingVideo
    /\ IF ~uploadedImage
       THEN /\ toasts' = {"No image selected"}
            /\ UNCHANGED <<isGenerating, generationResult, hgPc>>
       ELSE /\ toasts' = {}
            /\ isGenerating' = TRUE
            /\ generationResult' = NoResult
            /\ hgPc' = "analyze"
    /\ UNCHANGED <<step, uploadedImage, includeVideoEffects, videoPrompts,
                   selectedVideoPrompt, isGeneratingVideo, generatedVideo, user>>
    /\ analysisRequests' = 0
    /\ UNCHANGED <<varsConfig, varsSession, varsPrompt, varsIv, varsMp, varsBackend, lastAnalysis,
                   varsVeo, varsGv>>

\* CreateAd.tsx:245-263: the analysis; without video effects the handler
\* runs on to its end
HgAnalyze(resp) ==
    /\ hgPc = "analyze"
    /\ LET a == AnalyzeImageWithGPT4oMini(resp)
       IN  /\ lastAnalysis' = a
           /\ analysisRequests' = analysisRequests + (IF a.requestSent THEN 1 ELSE 0)
           /\ IF AnalysisThrows(a)
              THEN HgCatch /\ UNCHANGED videoObjects
              ELSE IF includeVideoEffects
              THEN /\ hgPc' = "simple"
                   /\ UNCHANGED <<step, isGenerating, generationResult, toasts, videoObjects>>
              ELSE HgTail([videoUrl |-> Undefined, videoPrompt |-> ""], "none")
    /\ UNCHANGED <<uploadedImage, includeVideoEffects, videoPrompts,
                   selectedVideoPrompt, isGeneratingVideo, generatedVideo, user>>
    /\ UNCHANGED <<varsConfig, varsSession, varsPrompt, varsIv, varsMp, storageObjects,
                   imageVariationRows, videoRows, varsVeo, varsGv>>

\* generateVideoSimple, aiService.ts:92-98: the image is analysed again and
\* generateVideoWithVeo is called
GenerateVideoSimple(resp, b, rejected, job) ==
    /\ hgPc = "simple"
    /\ LET a == AnalyzeImageWithGPT4oMini(resp)
       IN  /\ lastAnalysis' = a
           /\ analysisRequests' = analysisRequests + (IF a.requestSent THEN 1 ELSE 0)
           /\ IF AnalysisThrows(a)
              THEN HgCatch /\ UNCHANGED varsVeo
              ELSE /\ VeoBegin(b, rejected, job)
                   /\ hgPc' = "video"
                   /\ UNCHANGED <<step, isGenerating, generationResult, toasts>>
    /\ UNCHANGED <<uploadedImage, includeVideoEffects, videoPrompts,
                   selectedVideoPrompt, isGeneratingVideo, generatedVideo, user>>
    /\ UNCHANGED <<varsConfig, varsSession, varsPrompt, varsIv, varsMp, varsBackend, varsGv>>

\* the frame of a generateVideoWithVeo call that has settled is gone
VeoReset ==
    /\ veoPc' = "idle" /\ operation' = Pending /\ attempts' = 0 /\ veoWaits' = 0
    /\ veoPolls' = 0 /\ videoPrompt' = Undefined /\ veoResult' = NoVeoResult
    /\ veoError' = "none"

\* generateVideoSimple has settled: CreateAd.tsx:261-338
HgAfterVideo(save) ==
    /\ hgPc = "video"
    /\ veoPc \in {"returned", "thrown"}
    /\ IF veoPc = "thrown"
       THEN HgCatch /\ UNCHANGED videoObjects
       ELSE HgTail(veoResult, save)
    /\ VeoReset
    /\ UNCHANGED <<uploadedImage, includeVideoEffects, videoPrompts,
                   selectedVideoPrompt, isGeneratingVideo, generatedVideo, user>>
    /\ UNCHANGED <<varsConfig, varsSession, varsPrompt, varsIv, varsMp, storageObjects,
                   imageVariationRows, videoRows, lastAnalysis, analysisRequests, varsGv>>

----------------------------------------------------------------------------
(* generateVideo and CreateAd.handleGenerateVideo *)

SupabaseVideoUrl == "https://storage/generated-videos/video.mp4"

GvPending == [done |-> FALSE, response |-> "none"]
GvDone(r) == [done |-> TRUE, response |-> r]
\* a finished job: no response, no videos, a video without uri, a video uri
GvJobStates == {GvPending} \cup {GvDone(r) : r \in {"none", "noVideos", "noUri", "uri"}}

NoGvResult == [status |-> "none", videoUrl |-> Undefined, error |-> Undefined]
GvCompleted(url) == [status |-> "completed", videoUrl |-> url, error |-> Undefined]
\* the catch block of aiService.ts:825-834
GvFailed(msg) == [status |-> "failed", videoUrl |-> "", error |-> msg]
\* the throw of aiService.ts:745-747
GvThrown == [status |-> "thrown", videoUrl |-> Undefined, error |-> "Google API is required"]

\* the catch and finally of CreateAd.tsx:211-220
HgvCatch ==
    /\ toasts' = {"Video generation failed"}
    /\ isGeneratingVideo' = FALSE

\* CreateAd.tsx:162-200 and aiService.ts:744-776: the checks of the handler,
\* and generateVideo up to the job submission
HgvBegin ==
    /\ gvPc = "idle" /\ hgPc = "idle" /\ ~isGeneratingVideo
    /\ revision = 1
    /\ IF selectedVideoPrompt = ""
       THEN /\ toasts' = {"No prompt selected"}
            /\ UNCHANGED <<isGeneratingVideo, generatedVideo, gvPc, gvResult>>
       ELSE IF ~user
       THEN /\ toasts' = {"Authentication required"}
            /\ UNCHANGED <<isGeneratingVideo, generatedVideo, gvPc, gvResult>>
       ELSE /\ generatedVideo' = "null"
            /\ IF selectedVideoPrompt \notin videoPrompts
               THEN HgvCatch /\ UNCHANGED <<gvPc, gvResult>>
               ELSE IF ~GoogleAvailable
               THEN HgvCatch /\ gvResult' = GvThrown /\ UNCHANGED gvPc
               ELSE /\ isGeneratingVideo' = TRUE
                    /\ toasts' = {}
                    /\ gvPc' = "submit"
                    /\ gvResult' = NoGvResult
    /\ UNCHANGED <<gvOperation, step, uploadedImage, includeVideoEffects, isGenerating,
                   generationResult, videoPrompts, selectedVideoPrompt, user, hgPc>>
    /\ UNCHANGED <<varsConfig, varsSession, varsPrompt, varsIv, varsMp, varsBackend, lastAnalysis, analysisRequests, varsVeo>>

\* aiService.ts:776: the job submission
GvSubmit(rejected, answer) ==
    /\ gvPc = "submit"
    /\ IF rejected
       THEN /\ gvPc' = "returned" /\ gvResult' = GvFailed("submit")
            /\ UNCHANGED gvOperation
       ELSE /\ gvPc' = "loop" /\ gvOperation' = answer
            /\ UNCHANGED gvResult
    /\ UNCHANGED <<varsConfig, varsSession, varsPrompt, varsIv, varsMp, varsBackend, lastAnalysis, analysisRequests,
                   varsVeo, varsPage>>

\* aiService.ts:778-779: the job is not done, the call waits 10 seconds
GvWait ==
    /\ gvPc = "loop"
    /\ ~gvOperation.done
    /\ gvPc' = "poll"
    /\ UNCHANGED <<gvOperation, gvResult>>
    /\ UNCHANGED <<varsConfig, varsSession, varsPrompt, varsIv, varsMp, varsBackend, lastAnalysis, analysisRequests,
                   varsVeo, varsPage>>

\* aiService.ts:780: one status request
GvPoll(rejected, answer) ==
    /\ gvPc = "poll"
    /\ IF rejected
       THEN /\ gvPc' = "returned" /\ gvResult' = GvFailed("poll")
            /\ UNCHANGED gvOperation
       ELSE /\ gvPc' = "loop" /\ gvOperation' = answer
            /\ UNCHANGED gvResult
    /\ UNCHANGED <<varsConfig, varsSession, varsPrompt, varsIv, varsMp, varsBackend, lastAnalysis, analysisRequests,
                   varsVeo, varsPage>>

\* a row written before the video exists
VideoRow_Pending(url) == [video_url |-> url, status |-> "pending"]

\* aiService.ts:873-883: the row saveVideoToDatabase inserts into videos
VideoRow(url) == [video_url |-> url, status |-> "completed"]

\* aiService.ts:783-834: the job is done
GvAfterLoop(fetchOk, uploadOk, dbOk) ==
    /\ gvPc = "loop"
    /\ gvOperation.done
    /\ gvPc' = "returned"
    /\ IF gvOperation.response # "uri"
       THEN /\ gvResult' = GvFailed(gvOperation.response)
            /\ UNCHANGED <<videoObjects, videoRows>>
       ELSE IF ~fetchOk
       THEN /\ gvResult' = GvFailed("fetch")
            /\ UNCHANGED <<videoObjects, videoRows>>
       ELSE IF ~uploadOk
       THEN /\ gvResult' = GvFailed("upload")
            /\ UNCHANGED <<videoObjects, videoRows>>
       ELSE /\ gvResult' = GvCompleted(SupabaseVideoUrl)
            /\ videoObjects' = videoObjects \cup {"generated-videos"}
            /\ videoRows' = IF dbOk THEN videoRows \cup {VideoRow(SupabaseVideoUrl)}
                            ELSE videoRows
    /\ UNCHANGED gvOperation
    /\ UNCHANGED <<varsConfig, varsSession, varsPrompt, varsIv, varsMp, storageObjects,
                   imageVariationRows, lastAnalysis, analysisRequests, varsVeo, varsPage>>

\* CreateAd.tsx:200-220: generateVideo has returned
HgvFinish ==
    /\ gvPc = "returned"
    /\ gvPc' = "idle"
    /\ IF gvResult.status = "completed"
       THEN /\ generatedVideo' = gvResult.videoUrl
            /\ toasts' = {"Video generated successfully!"}
            /\ isGeneratingVideo' = FALSE
       ELSE HgvCatch /\ UNCHANGED generatedVideo
    /\ gvOperation' = GvPending
    /\ gvResult' = NoGvResult
    /\ UNCHANGED <<step, uploadedImage, includeVideoEffects,
                   isGenerating, generationResult, videoPrompts, selectedVideoPrompt,
                   user, hgPc>>
    /\ UNCHANGED <<varsConfig, varsSession, varsPrompt, varsIv, varsMp, varsBackend, lastAnalysis, analysisRequests, varsVeo>>

----------------------------------------------------------------------------
(* CreateAd: the upload step *)

\* CreateAd.tsx:59: file.size > 10 * 1024 * 1024
maxFileSize == 10 * 1024 * 1024

\* the size test accepts everything
TooLarge_NoLimit(size) == FALSE

\* CreateAd.tsx:59, part_001:48
TooLarge(size) == size > maxFileSize

\* sizes of the files a user picks: small, at the limit, just above it
FileSizes == {1024, maxFileSize, maxFileSize + 1}

NoFile == [page |-> "none", size |-> 0]

\* CreateAd.tsx:97-102: the original image under three names
OriginalUrl == [kind |-> "blob", name |-> "original"]

\* the original image offered once
FallbackVariations_Single ==
    << [url |-> OriginalUrl, style |-> "Original Style", description |-> "Your original product image"] >>

\* CreateAd.tsx:98-102
FallbackVariations ==
    << [url |-> OriginalUrl, style |-> "Original Style", description |-> "Your original product image"],
       [url |-> OriginalUrl, style |-> "Modern Minimal", description |-> "Modern minimal variation"],
       [url |-> OriginalUrl, style |-> "Bold Dynamic", description |-> "Bold dynamic variation"] >>

\* the frame of a generateImageVariations call that has settled is gone
IvReset ==
    /\ ivPc' = "idle" /\ ivUserId' = FALSE /\ variationPrompts' = <<>>
    /\ promptSource' = "none" /\ ivIdx' = 0 /\ generatedImages' = <<>>
    /\ imageRequests' = <<>> /\ ivLog' = <<>>

\* no other handler or service call of the session is running
SessionIdle == gaPc = "idle" /\ gmpPc = "idle" /\ hgPc = "idle" /\ mpPc = "idle"

\* CreateAd.tsx:56-78: a file is chosen in the file input of step 1, which
\* the drop zone opens while no preview is shown (CreateAd.tsx:381, 409-412)
HandleImageUpload(size) ==
    /\ step = 1 /\ ~imagePreview
    /\ SessionIdle
    /\ filesSelected < MaxFiles
    /\ filesSelected' = filesSelected + 1
    /\ lastFile' = [page |-> "CreateAd", size |-> size]
    /\ IF TooLarge(size)
       THEN /\ toasts' = {"File too large"}
            /\ UNCHANGED <<uploadedImage, readerBusy, isLoadingVariations, uploadsInFlight,
                           pendingFiles, selectedFile, shownFor>>
       ELSE /\ toasts' = {}
            /\ uploadedImage' = TRUE
            /\ readerBusy' = TRUE
            /\ isLoadingVariations' = TRUE
            /\ uploadsInFlight' = uploadsInFlight + 1
            /\ pendingFiles' = pendingFiles \cup {filesSelected + 1}
            /\ selectedFile' = filesSelected + 1
            /\ UNCHANGED shownFor
    /\ UNCHANGED <<imagePreview, imageVariations, step, includeVideoEffects, isGenerating,
                   generationResult, videoPrompts, selectedVideoPrompt, isGeneratingVideo,
                   generatedVideo, user, hgPc>>
    /\ UNCHANGED <<varsConfig, varsPrompt, varsIv, varsMp, varsBackend, lastAnalysis, analysisRequests,
                   varsVeo, varsGv, varsGa, varsMk, varsFence, varsStream>>

\* CreateAd.tsx:72-74: reader.onload
PreviewLoaded ==
    /\ readerBusy
    /\ readerBusy' = FALSE
    /\ imagePreview' = TRUE
    /\ UNCHANGED <<isLoadingVariations, imageVariations, uploadsInFlight, pendingFiles,
                   selectedFile, shownFor, filesSelected, lastFile>>
    /\ UNCHANGED <<varsConfig, varsPrompt, varsIv, varsMp, varsBackend, varsVideo,
                   varsGa, varsMk, varsFence, varsStream>>

\* CreateAd.tsx:389-402: the Remove button over the preview
RemoveImage ==
    /\ step = 1 /\ imagePreview
    /\ uploadedImage' = FALSE
    /\ selectedFile' = 0
    /\ imagePreview' = FALSE
    /\ UNCHANGED <<readerBusy, isLoadingVariations, imageVariations, uploadsInFlight,
                   pendingFiles, shownFor, filesSelected, lastFile>>
    /\ UNCHANGED <<step, includeVideoEffects, isGenerating, generationResult, videoPrompts,
                   selectedVideoPrompt, isGeneratingVideo, generatedVideo, user, toasts, hgPc>>
    /\ UNCHANGED <<varsConfig, varsPrompt, varsIv, varsMp, varsBackend, lastAnalysis, analysisRequests,
                   varsVeo, varsGv, varsGa, varsMk, varsFence, varsStream>>

\* CreateAd.tsx:82-108: the call of generateImageVariations has settled.  The
\* calls of overlapping invocations are followed one after the other.
HiuFinish ==
    /\ uploadsInFlight > 0
    /\ ivPc \in {"returned", "thrown"}
    /\ IF ivPc = "returned"
       THEN /\ imageVariations' = generatedImages
            /\ UNCHANGED toasts
       ELSE /\ imageVariations' = FallbackVariations
            /\ toasts' = toasts \cup {"Generation Error"}
    /\ isLoadingVariations' = FALSE
    /\ step' = 2
    /\ uploadsInFlight' = uploadsInFlight - 1
    /\ \E f \in pendingFiles : pendingFiles' = pendingFiles \ {f} /\ shownFor' = f
    /\ UNCHANGED selectedFile
    /\ IvReset
    /\ promptResponse' = Response(FALSE, "none", <<>>)
    /\ UNCHANGED promptResult
    /\ UNCHANGED <<imagePreview, readerBusy, filesSelected, lastFile>>
    /\ UNCHANGED <<uploadedImage, includeVideoEffects, isGenerating, generationResult,
                   videoPrompts, selectedVideoPrompt, isGeneratingVideo, generatedVideo,
                   user, hgPc>>
    /\ UNCHANGED <<varsConfig, varsMp, varsBackend, lastAnalysis, analysisRequests,
                   varsVeo, varsGv, varsGa, varsMk, varsFence, varsStream>>

\* CreateAd.tsx:869-872: the Create Another Ad button of step 4
CreateAnotherAd ==
    /\ step = 4
    /\ step' = 1
    /\ UNCHANGED <<uploadedImage, includeVideoEffects, isGenerating, generationResult,
                   videoPrompts, selectedVideoPrompt, isGeneratingVideo, generatedVideo,
                   user, toasts, hgPc>>
    /\ UNCHANGED <<varsConfig, varsPrompt, varsIv, varsMp, varsBackend, lastAnalysis,
                   analysisRequests, varsVeo, varsGv, varsSession>>

(* CreateAd.tsx 434-443: the step-1 button "Continue to Configure", enabled *)
(* while uploadedImage is set, runs setStep(2).                             *)
ContinueToConfigure ==
    /\ step = 1
    /\ uploadedImage
    /\ step' = 2
    /\ UNCHANGED <<uploadedImage, includeVideoEffects, isGenerating, generationResult,
                   videoPrompts, selectedVideoPrompt, isGeneratingVideo, generatedVideo,
                   user, toasts, hgPc>>
    /\ UNCHANGED <<varsConfig, varsPrompt, varsIv, varsMp, varsBackend, lastAnalysis, analysisRequests,
                   varsVeo, varsGv, varsSession>>

\* CreateAd.tsx:549: the Back button of step 2
BackToUpload ==
    /\ step = 2
    /\ step' = 1
    /\ UNCHANGED <<uploadedImage, includeVideoEffects, isGenerating, generationResult,
                   videoPrompts, selectedVideoPrompt, isGeneratingVideo, generatedVideo,
                   user, toasts, hgPc>>
    /\ UNCHANGED <<varsConfig, varsPrompt, varsIv, varsMp, varsBackend, lastAnalysis, analysisRequests,
                   varsVeo, varsGv, varsSession>>

----------------------------------------------------------------------------
(* MarketingPost page and marketingPostService.generateMarketingPost *)

\* part_001:45-65: a file is chosen in the file input of the page
MkHandleImageUpload(size) ==
    /\ SessionIdle /\ uploadsInFlight = 0
    /\ filesSelected < MaxFiles
    /\ filesSelected' = filesSelected + 1
    /\ lastFile' = [page |-> "MarketingPost", size |-> size]
    /\ IF TooLarge(size)
       THEN /\ toasts' = {"File too large"}
            /\ UNCHANGED <<mkUploadedImage, mkReaderBusy, showUploadModal>>
       ELSE /\ mkUploadedImage' = TRUE
            /\ mkReaderBusy' = TRUE
            /\ showUploadModal' = TRUE
            /\ UNCHANGED toasts
    /\ UNCHANGED <<mkImagePreview, mkIsGenerating, gmpPc, marketingPostRows, deletedPosts, marketingPosts, deleteReported>>
    /\ UNCHANGED <<imagePreview, readerBusy, isLoadingVariations, imageVariations,
                   uploadsInFlight, pendingFiles, selectedFile, shownFor>>
    /\ UNCHANGED <<step, uploadedImage, includeVideoEffects, isGenerating, generationResult,
                   videoPrompts, selectedVideoPrompt, isGeneratingVideo, generatedVideo,
                   user, hgPc>>
    /\ UNCHANGED <<varsConfig, varsPrompt, varsIv, varsMp, varsBackend, lastAnalysis, analysisRequests,
                   varsVeo, varsGv, varsGa, varsFence, varsStream>>

\* part_001:59-61: reader.onload
MkPreviewLoaded ==
    /\ mkReaderBusy
    /\ mkReaderBusy' = FALSE
    /\ mkImagePreview' = TRUE
    /\ UNCHANGED <<mkUploadedImage, showUploadModal, mkIsGenerating, gmpPc, marketingPostRows, deletedPosts, marketingPosts, deleteReported>>
    /\ UNCHANGED <<varsConfig, varsPrompt, varsIv, varsMp, varsBackend, varsVideo,
                   varsUpload, varsGa, varsFence, varsStream>>

\* part_001:425, 494: the close and cancel buttons of the upload modal
CloseUploadModal ==
    /\ showUploadModal /\ gmpPc = "idle"
    /\ showUploadModal' = FALSE
    /\ UNCHANGED <<mkUploadedImage, mkImagePreview, mkReaderBusy, mkIsGenerating, gmpPc,
                   marketingPostRows, deletedPosts, marketingPosts, deleteReported>>
    /\ UNCHANGED <<varsConfig, varsPrompt, varsIv, varsMp, varsBackend, varsVideo,
                   varsUpload, varsGa, varsFence, varsStream>>

\* the frame of a marketing generateImageVariations call that has settled
MpReset == mpPc' = "idle" /\ mpIdx' = 0 /\ variations' = <<>> /\ mpLog' = <<>>

\* part_006:56-59: the commands for which image_variations has a policy.
\* Row level security is enabled on the table (part_006:44), so a command
\* with no policy sees no row.
ImageVariationsPolicies == {"SELECT", "INSERT", "UPDATE"}

\* the rows of the user's own a command may touch (auth.uid() = user_id)
RlsPermits(command) == command \in ImageVariationsPolicies

\* marketingpostService.ts:340-369: the user's marketing_post rows
GetMarketingPosts(rows, deleted) ==
    IF RlsPermits("SELECT") THEN (1..rows) \ deleted ELSE {}

\* part_001:36-43: the list is replaced unless the query throws
FetchMarketingPosts(rows, deleted, fetchOk) ==
    IF fetchOk THEN GetMarketingPosts(rows, deleted) ELSE marketingPosts

\* marketingpostService.ts:371-379: the rows the delete removes; a delete
\* that matches no permitted row reports no error
DeleteMarketingPost(postId) ==
    IF RlsPermits("DELETE") THEN {postId} \cap (1..marketingPostRows) ELSE {}

\* part_001:113-129, from the delete button of a listed post (206, 309)
DeletePost(postId, deleteError, fetchOk) ==
    /\ postId \in marketingPosts
    /\ IF deleteError
       THEN /\ toasts' = toasts \cup {"Error"}
            /\ UNCHANGED <<deletedPosts, marketingPosts, deleteReported>>
       ELSE /\ deletedPosts' = deletedPosts \cup DeleteMarketingPost(postId)
            /\ marketingPosts' =
                 FetchMarketingPosts(marketingPostRows,
                                     deletedPosts \cup DeleteMarketingPost(postId), fetchOk)
            /\ deleteReported' = deleteReported \cup {postId}
            /\ toasts' = toasts \cup {"Deleted"}
    /\ UNCHANGED <<mkUploadedImage, mkImagePreview, mkReaderBusy, showUploadModal,
                   mkIsGenerating, gmpPc, marketingPostRows>>
    /\ UNCHANGED <<step, uploadedImage, includeVideoEffects, isGenerating, generationResult,
                   videoPrompts, selectedVideoPrompt, isGeneratingVideo, generatedVideo,
                   user, hgPc>>
    /\ UNCHANGED <<varsConfig, varsPrompt, varsIv, varsMp, varsBackend, lastAnalysis, analysisRequests,
                   varsVeo, varsGv, varsUpload, varsGa, varsFence, varsStream>>

\* part_001:67-70: the Generate button of the upload modal (part_001:499-500)
GenerateMarketingPost ==
    /\ showUploadModal /\ ~mkIsGenerating
    /\ SessionIdle /\ uploadsInFlight = 0
    /\ mkUploadedImage /\ user
    /\ mkIsGenerating' = TRUE
    /\ gmpPc' = "analyze"
    /\ toasts' = {}
    /\ UNCHANGED <<mkUploadedImage, mkImagePreview, mkReaderBusy, showUploadModal,
                   marketingPostRows, deletedPosts, marketingPosts, deleteReported>>
    /\ UNCHANGED <<step, uploadedImage, includeVideoEffects, isGenerating, generationResult,
                   videoPrompts, selectedVideoPrompt, isGeneratingVideo, generatedVideo,
                   user, hgPc>>
    /\ UNCHANGED <<varsConfig, varsPrompt, varsIv, varsMp, varsBackend, lastAnalysis, analysisRequests,
                   varsVeo, varsGv, varsUpload, varsGa, varsFence, varsStream>>

\* part_001:92-101: generateMarketingPost threw
GmpCatch ==
    /\ toasts' = toasts \cup {"Error"}
    /\ mkIsGenerating' = FALSE
    /\ gmpPc' = "idle"
    /\ UNCHANGED <<mkUploadedImage, mkImagePreview, showUploadModal, marketingPostRows, deletedPosts, marketingPosts, deleteReported>>

\* marketingpostService.ts:52-57, 92-172: the analysis and the content
\* request, each of which throws on a request error or an unparsable reply
GmpRequest(ok) ==
    /\ gmpPc \in {"analyze", "content"}
    /\ IF ok
       THEN /\ gmpPc' = IF gmpPc = "analyze" THEN "content" ELSE "variations"
            /\ UNCHANGED <<mkUploadedImage, mkImagePreview, showUploadModal,
                           mkIsGenerating, marketingPostRows, deletedPosts, marketingPosts, deleteReported, toasts>>
       ELSE GmpCatch
    /\ UNCHANGED mkReaderBusy
    /\ UNCHANGED <<step, uploadedImage, includeVideoEffects, isGenerating, generationResult,
                   videoPrompts, selectedVideoPrompt, isGeneratingVideo, generatedVideo,
                   user, hgPc>>
    /\ UNCHANGED <<varsConfig, varsPrompt, varsIv, varsMp, varsBackend, lastAnalysis, analysisRequests,
                   varsVeo, varsGv, varsUpload, varsGa, varsFence, varsStream>>

\* marketingpostService.ts:260-277: the object uploadImageToSupabase stores
OriginalObject == "marketing_original"

\* marketingpostService.ts:63-89 and part_001:79-101: the variations are
\* back; the original image is uploaded and the post is saved, and either
\* failure makes generateMarketingPost throw
GmpPersist(uploadOk, saveOk, fetchOk) ==
    /\ gmpPc = "variations"
    /\ mpPc = "returned"
    /\ IF uploadOk /\ saveOk
       THEN /\ marketingPostRows' = marketingPostRows + 1
            /\ marketingPosts' = FetchMarketingPosts(marketingPostRows + 1, deletedPosts, fetchOk)
            /\ UNCHANGED <<deletedPosts, deleteReported>>
            /\ toasts' = toasts \cup {"Success!"}
            /\ mkUploadedImage' = FALSE
            /\ mkImagePreview' = FALSE
            /\ showUploadModal' = FALSE
            /\ mkIsGenerating' = FALSE
            /\ gmpPc' = "idle"
       ELSE GmpCatch
    /\ storageObjects' = IF uploadOk THEN storageObjects \cup {OriginalObject} ELSE storageObjects
    /\ MpReset
    /\ UNCHANGED mkReaderBusy
    /\ UNCHANGED <<step, uploadedImage, includeVideoEffects, isGenerating, generationResult,
                   videoPrompts, selectedVideoPrompt, isGeneratingVideo, generatedVideo,
                   user, hgPc>>
    /\ UNCHANGED <<varsConfig, varsPrompt, varsIv, imageVariationRows, videoObjects, videoRows,
                   lastAnalysis, analysisRequests,
                   varsVeo, varsGv, varsUpload, varsGa, varsFence, varsStream>>

----------------------------------------------------------------------------
(* aiService.generateAd *)

\* generatedImages is <<>> where the code leaves it undefined
NoGaResult == [status |-> "none", generatedImages |-> <<>>, videoUrl |-> Undefined,
               videoPrompt |-> Undefined]
GaPending(images) == [NoGaResult EXCEPT !.status = "pending", !.generatedImages = images]
\* aiService.ts:131-140
GaCompleted(images, url, prompt) ==
    [status |-> "completed", generatedImages |-> images, videoUrl |-> url,
     videoPrompt |-> prompt]
\* aiService.ts:141-148
GaFailed == [NoGaResult EXCEPT !.status = "failed"]

NoGaRequest == [skipVariations |-> FALSE, includeVideoEffects |-> FALSE]

\* the video stage is entered whatever the request says
GaVideoWanted_IgnoresToggle == googleGenAI

\* aiService.ts:123: request.includeVideoEffects && this.googleGenAI
GaVideoWanted == gaRequest.includeVideoEffects /\ googleGenAI

\* aiService.ts:120-140: the video stage, or the return without a video
GaVideoStage(images, b, rejected, job) ==
    IF GaVideoWanted
    THEN /\ VeoBegin(b, rejected, job)
         /\ gaPc' = "video"
         /\ gaResult' = GaPending(images)
    ELSE /\ gaPc' = "returned"
         /\ gaResult' = GaCompleted(images, Undefined, Undefined)
         /\ UNCHANGED varsVeo

\* a call of generateAd (aiService.ts:105-109)
GenerateAd(skip, video) ==
    /\ SessionIdle /\ uploadsInFlight = 0 /\ ivPc = "idle" /\ veoPc = "idle"
    /\ gaPc' = "analyze"
    /\ gaRequest' = [skipVariations |-> skip, includeVideoEffects |-> video]
    /\ gaResult' = NoGaResult
    /\ lastAnalysis' = NoAnalysis
    /\ analysisRequests' = 0
    /\ UNCHANGED <<varsConfig, varsPrompt, varsIv, varsMp, varsBackend, varsVeo, varsGv,
                   varsPage, varsUpload, varsMk, varsFence, varsStream>>

\* aiService.ts:111-118: the analysis, and what follows it when the
\* variations are skipped
GaAnalyze(resp, b, rejected, job) ==
    /\ gaPc = "analyze"
    /\ LET a == AnalyzeImageWithGPT4oMini(resp)
       IN  /\ lastAnalysis' = a
           /\ analysisRequests' = analysisRequests + (IF a.requestSent THEN 1 ELSE 0)
           /\ IF AnalysisThrows(a)
              THEN /\ gaPc' = "returned" /\ gaResult' = GaFailed
                   /\ UNCHANGED varsVeo
              ELSE IF ~gaRequest.skipVariations
              THEN /\ gaPc' = "variations"
                   /\ UNCHANGED <<gaResult, varsVeo>>
              ELSE GaVideoStage(<<>>, b, rejected, job)
    /\ UNCHANGED gaRequest
    /\ UNCHANGED <<varsConfig, varsPrompt, varsIv, varsMp, varsBackend, varsGv,
                   varsPage, varsUpload, varsMk, varsFence, varsStream>>

\* aiService.ts:116-118: generateImageVariations has settled
GaAfterVariations(b, rejected, job) ==
    /\ gaPc = "variations"
    /\ ivPc \in {"returned", "thrown"}
    /\ IF ivPc = "thrown"
       THEN /\ gaPc' = "returned" /\ gaResult' = GaFailed
            /\ UNCHANGED varsVeo
       ELSE GaVideoStage(generatedImages, b, rejected, job)
    /\ IvReset
    /\ promptResponse' = Response(FALSE, "none", <<>>)
    /\ UNCHANGED <<gaRequest, promptResult>>
    /\ UNCHANGED <<varsConfig, varsMp, varsBackend, lastAnalysis, analysisRequests, varsGv,
                   varsPage, varsUpload, varsMk, varsFence, varsStream>>

\* aiService.ts:125-140: generateVideoWithVeo has settled
GaAfterVideo ==
    /\ gaPc = "video"
    /\ veoPc \in {"returned", "thrown"}
    /\ gaPc' = "returned"
    /\ gaResult' = IF veoPc = "thrown" THEN GaFailed
                   ELSE GaCompleted(gaResult.generatedImages, veoResult.videoUrl,
                                    veoResult.videoPrompt)
    /\ VeoReset
    /\ UNCHANGED gaRequest
    /\ UNCHANGED <<varsConfig, varsPrompt, varsIv, varsMp, varsBackend, lastAnalysis, analysisRequests, varsGv,
                   varsPage, varsUpload, varsMk, varsFence, varsStream>>

\* the caller has taken the response
GaReturn ==
    /\ gaPc = "returned"
    /\ gaPc' = "idle"
    /\ gaRequest' = NoGaRequest
    /\ gaResult' = NoGaResult
    /\ lastAnalysis' = NoAnalysis
    /\ analysisRequests' = 0
    /\ UNCHANGED <<varsConfig, varsPrompt, varsIv, varsMp, varsBackend, varsVeo, varsGv,
                   varsPage, varsUpload, varsMk, varsFence, varsStream>>

----------------------------------------------------------------------------
(* The chunk loop of one image request *)

\* the loop goes on after an image was pushed
BreakAfterImage_Never == FALSE

\* aiService.ts:432-433 (marketingpostService.ts:244-245): imageGenerated =
\* true; break
BreakAfterImage == TRUE

\* aiService.ts:387-434, marketingpostService.ts:220-246: one iteration of
\* for await (const chunk of response).  A chunk without inlineData fails
\* the if, a chunk with empty data takes the continue, a chunk with data is
\* decoded, stored and pushed.
ReadChunk ==
    /\ streamPc = "reading"
    /\ chunksRead < Len(chunkStream)
    /\ chunksRead' = chunksRead + 1
    /\ IF chunkStream[chunksRead + 1] = "image"
       THEN /\ retained' = Append(retained, chunksRead + 1)
            /\ streamPc' = IF BreakAfterImage THEN "done" ELSE "reading"
       ELSE UNCHANGED <<retained, streamPc>>
    /\ UNCHANGED <<chunkStream, varsConfig, varsPrompt, varsIv, varsMp, varsBackend, varsVideo,
                   varsUpload, varsGa, varsMk, varsFence>>

\* the stream is exhausted and the loop ends (aiService.ts:435)
EndOfStream ==
    /\ streamPc = "reading"
    /\ chunksRead = Len(chunkStream)
    /\ streamPc' = "done"
    /\ UNCHANGED <<chunkStream, chunksRead, retained, varsConfig, varsPrompt, varsIv, varsMp,
                   varsBackend, varsVideo, varsUpload, varsGa, varsMk, varsFence>>

----------------------------------------------------------------------------
(* Fence stripping and JSON.parse of a completion response *)

\* A text is a sequence of tokens: "F" is a run of three backticks, "J" the
\* letters json, "W" one whitespace character, "Q" a double quote, "A" any
\* other character.
Tokens == {"F", "J", "W", "Q", "A", "[", "]"}

RECURSIVE DropWs(_)
\* the text without its leading whitespace
DropWs(t) == IF t # <<>> /\ Head(t) = "W" THEN DropWs(Tail(t)) ELSE t

RECURSIVE DropWsEnd(_)
\* the text without its trailing whitespace
DropWsEnd(t) ==
    IF t # <<>> /\ t[Len(t)] = "W" THEN DropWsEnd(SubSeq(t, 1, Len(t) - 1)) ELSE t

\* String.prototype.trim
Trim(t) == DropWsEnd(DropWs(t))

StartsWith(t, prefix) == Len(t) >= Len(prefix) /\ SubSeq(t, 1, Len(prefix)) = prefix

\* .replace(/\s*```$/, ''): a closing fence at the very end goes, with the
\* whitespace before it
StripEnd(t) ==
    IF t # <<>> /\ t[Len(t)] = "F" THEN DropWsEnd(SubSeq(t, 1, Len(t) - 1)) ELSE t

\* aiService.ts:300-305 (and 644-649, 727-732, 1193-1198, 1657-1662)
StripFence(t) ==
    LET c == Trim(t)
    IN  IF StartsWith(c, <<"F", "J">>) THEN StripEnd(DropWs(SubSeq(c, 3, Len(c))))
        ELSE IF StartsWith(c, <<"F">>) THEN StripEnd(DropWs(SubSeq(c, 2, Len(c))))
        ELSE c

RECURSIVE RemoveJsonFences(_)
\* .replace(/```json\s*/g, ''), marketingpostService.ts:121
RemoveJsonFences(t) ==
    IF t = <<>> THEN <<>>
    ELSE IF StartsWith(t, <<"F", "J">>) THEN RemoveJsonFences(DropWs(SubSeq(t, 3, Len(t))))
    ELSE <<Head(t)>> \o RemoveJsonFences(Tail(t))

RECURSIVE RemoveFences(_)
\* .replace(/```\s*/g, ''), marketingpostService.ts:122
RemoveFences(t) ==
    IF t = <<>> THEN <<>>
    ELSE IF Head(t) = "F" THEN RemoveFences(DropWs(Tail(t)))
    ELSE <<Head(t)>> \o RemoveFences(Tail(t))

\* marketingpostService.ts:120-123 (and 166-169)
CleanMarkdown(t) == Trim(RemoveFences(RemoveJsonFences(t)))

IsJsonString(t) ==
    /\ Len(t) >= 2 /\ t[1] = "Q" /\ t[Len(t)] = "Q"
    /\ \A i \in 2..(Len(t) - 1) : t[i] # "Q"

ParseError == [ok |-> FALSE, kind |-> "error", chars |-> <<>>]

\* JSON.parse on the texts of this alphabet: a string, an empty array or an
\* array of one string, with whitespace allowed around every token
JsonParse(t) ==
    LET c == Trim(t)
    IN  IF IsJsonString(c)
        THEN [ok |-> TRUE, kind |-> "string", chars |-> SubSeq(c, 2, Len(c) - 1)]
        ELSE IF Len(c) >= 2 /\ c[1] = "[" /\ c[Len(c)] = "]"
        THEN LET inner == Trim(SubSeq(c, 2, Len(c) - 1))
             IN  IF inner = <<>> THEN [ok |-> TRUE, kind |-> "emptyArray", chars |-> <<>>]
                 ELSE IF IsJsonString(inner)
                 THEN [ok |-> TRUE, kind |-> "array",
                       chars |-> SubSeq(inner, 2, Len(inner) - 1)]
                 ELSE ParseError
        ELSE ParseError

\* the JSON texts of up to MaxTextLen tokens
JsonTexts == {t \in SeqUpTo(Tokens, MaxTextLen) : JsonParse(t).ok}

Ws(n) == [i \in 1..n |-> "W"]

\* a reply: the JSON text bare or in a fence, with whitespace before the
\* reply, inside the fence around the text, and after the reply
Wrap(x) ==
    IF x.fence = "none" THEN Ws(x.lead) \o x.json \o Ws(x.trail)
    ELSE Ws(x.lead) \o <<"F">> \o (IF x.fence = "json" THEN <<"J">> ELSE <<>>)
            \o Ws(x.gap) \o x.json \o Ws(x.gap) \o <<"F">> \o Ws(x.trail)

FenceTexts ==
    [json : JsonTexts, fence : {"none", "json", "plain"},
     lead : 0..1, gap : 0..1, trail : 0..1]

NoFenceText == [json |-> <<>>, fence |-> "none", lead |-> 0, gap |-> 0, trail |-> 0]
NotStripped == [done |-> FALSE, ai |-> <<>>, aiTwice |-> <<>>, marketing |-> <<>>,
                marketingTwice |-> <<>>]

\* the reply goes through the cleaning code of each service, once and twice
StripResponse ==
    /\ ~stripped.done
    /\ LET t == Wrap(fenceText)
       IN  stripped' = [done |-> TRUE,
                        ai |-> StripFence(t), aiTwice |-> StripFence(StripFence(t)),
                        marketing |-> CleanMarkdown(t),
                        marketingTwice |-> CleanMarkdown(CleanMarkdown(t))]
    /\ UNCHANGED <<fenceText, varsConfig, varsPrompt, varsIv, varsMp, varsBackend, varsVideo,
                   varsUpload, varsGa, varsMk, varsStream>>

----------------------------------------------------------------------------
(* Initial states *)

\* constructor: googleGenAI is set only with a key, and stays null when the
\* client constructor throws (aiService.ts:75-89)
InitConfig ==
    /\ revision \in {1, 2}
    /\ openaiApiKey \in BOOLEAN
    /\ googleApiKey \in BOOLEAN
    /\ googleGenAI \in (IF googleApiKey THEN BOOLEAN ELSE {FALSE})

InitIv ==
    /\ ivPc = "idle" /\ ivUserId = FALSE /\ variationPrompts = <<>>
    /\ promptSource = "none" /\ ivIdx = 0 /\ generatedImages = <<>>
    /\ imageRequests = <<>> /\ ivLog = <<>>

InitMp == mpPc = "idle" /\ mpIdx = 0 /\ variations = <<>> /\ mpLog = <<>>

InitBackend ==
    /\ storageObjects = {} /\ imageVariationRows = {}
    /\ videoObjects = {} /\ videoRows = {}

InitVeo ==
    /\ veoPc = "idle" /\ operation = Pending /\ attempts = 0 /\ veoWaits = 0
    /\ veoPolls = 0 /\ videoPrompt = Undefined /\ veoResult = NoVeoResult
    /\ veoError = "none"

InitGv == gvPc = "idle" /\ gvOperation = GvPending /\ gvResult = NoGvResult

\* the component as mounted (CreateAd.tsx:16-34)
InitPage ==
    /\ step = 1 /\ uploadedImage = FALSE /\ includeVideoEffects = FALSE
    /\ isGenerating = FALSE /\ generationResult = NoResult
    /\ videoPrompts = {} /\ selectedVideoPrompt = ""
    /\ isGeneratingVideo = FALSE /\ generatedVideo = "null"
    /\ user = FALSE /\ toasts = {} /\ hgPc = "idle"

InitVideoIdle == lastAnalysis = NoAnalysis /\ analysisRequests = 0 /\ InitVeo /\ InitGv /\ InitPage

InitUpload ==
    /\ imagePreview = FALSE /\ readerBusy = FALSE /\ isLoadingVariations = FALSE
    /\ imageVariations = <<>> /\ uploadsInFlight = 0 /\ filesSelected = 0
    /\ pendingFiles = {} /\ selectedFile = 0 /\ shownFor = 0
    /\ lastFile = NoFile

InitGa == gaPc = "idle" /\ gaRequest = NoGaRequest /\ gaResult = NoGaResult

\* the MarketingPost component as mounted (part_001:17-24)
InitMk ==
    /\ mkUploadedImage = FALSE /\ mkImagePreview = FALSE /\ mkReaderBusy = FALSE
    /\ showUploadModal = FALSE /\ mkIsGenerating = FALSE /\ gmpPc = "idle"
    /\ marketingPostRows = 0
    /\ deletedPosts = {} /\ marketingPosts = {} /\ deleteReported = {}

InitFence == fenceText = NoFenceText /\ stripped = NotStripped

InitStream ==
    chunkStream = <<>> /\ chunksRead = 0 /\ retained = <<>> /\ streamPc = "idle"

InitSession == InitUpload /\ InitGa /\ InitMk /\ InitFence /\ InitStream

InitPromptIdle ==
    /\ promptResponse = Response(FALSE, "none", <<>>)
    /\ promptResult = NotCalled

vars == <<varsConfig, varsPrompt, varsIv, varsMp, varsBackend, varsVideo, varsSession>>

\* the variation pipeline of both services
Init ==
    /\ InitConfig /\ InitPromptIdle /\ InitIv /\ InitMp /\ InitBackend /\ InitVideoIdle
    /\ InitSession

Next ==
    \/ \E uid \in BOOLEAN, resp \in VariationResponses : IvStart(uid, resp)
    \/ \E stream \in Streams, uploadOk \in BOOLEAN, dbOk \in BOOLEAN :
          IvPrompt(stream, uploadOk, dbOk)
    \/ MpStart
    \/ \E stream \in Streams, uploadOk \in BOOLEAN : MpPrompt(stream, uploadOk)
    \/ VariationsDone

Spec == Init /\ [][Next]_vars

\* the prompt parser (the same code in both revisions) applied to every
\* response of the bounded set
PromptInit ==
    /\ revision = 1 /\ openaiApiKey \in BOOLEAN
    /\ googleApiKey = FALSE /\ googleGenAI = FALSE
    /\ InitIv /\ InitMp /\ InitBackend /\ InitVideoIdle /\ InitSession
    /\ promptResponse \in PromptResponses
    /\ promptResult = NotCalled

PromptNext == CallPromptGenerator

PromptSpec == PromptInit /\ [][PromptNext]_vars

\* the video flows of the wizard: the page after the upload step, with or
\* without a signed-in user, video prompts and a selected prompt
VideoPromptIds == {"prompt_1", "prompt_3"}

VideoInit ==
    /\ InitConfig /\ InitPromptIdle /\ InitIv /\ InitMp /\ InitBackend
    /\ lastAnalysis = NoAnalysis /\ analysisRequests = 0 /\ InitVeo /\ InitGv /\ InitSession
    /\ step = 2
    /\ uploadedImage \in BOOLEAN
    /\ includeVideoEffects \in BOOLEAN
    /\ user \in BOOLEAN
    /\ videoPrompts \in {{}, VideoPromptIds}
    /\ selectedVideoPrompt \in {""} \cup videoPrompts
    /\ isGenerating = FALSE /\ generationResult = NoResult
    /\ isGeneratingVideo = FALSE /\ generatedVideo = "null"
    /\ toasts = {} /\ hgPc = "idle"

VideoNext ==
    \/ HgBegin
    \/ \E resp \in {"ok", "fail"} : HgAnalyze(resp)
    \/ \E resp \in {"ok", "fail"}, b \in 1..3, rejected \in BOOLEAN, job \in JobStates :
          GenerateVideoSimple(resp, b, rejected, job)
    \/ VeoWait
    \/ \E rejected \in BOOLEAN, answer \in JobStates : VeoPoll(rejected, answer)
    \/ \E fetchOk \in BOOLEAN : VeoAfterLoop(fetchOk)
    \/ \E save \in {"ok", "failed"} : HgAfterVideo(save)
    \/ HgvBegin
    \/ \E rejected \in BOOLEAN, answer \in GvJobStates : GvSubmit(rejected, answer)
    \/ GvWait
    \/ \E rejected \in BOOLEAN, answer \in GvJobStates : GvPoll(rejected, answer)
    \/ \E fetchOk \in BOOLEAN, uploadOk \in BOOLEAN, dbOk \in BOOLEAN :
          GvAfterLoop(fetchOk, uploadOk, dbOk)
    \/ HgvFinish

VideoSpec == VideoInit /\ [][VideoNext]_vars

\* every continuation of a settled promise or an expired timer is run by the
\* event loop, and the remote job answers every status request
VideoFairSpec == VideoSpec /\ WF_vars(VideoNext)

\* fence stripping applied to every reply of the bounded set
FenceInit ==
    /\ revision = 1 /\ openaiApiKey = TRUE /\ googleApiKey = FALSE /\ googleGenAI = FALSE
    /\ InitPromptIdle /\ InitIv /\ InitMp /\ InitBackend /\ InitVideoIdle
    /\ InitUpload /\ InitGa /\ InitMk /\ InitStream
    /\ fenceText \in FenceTexts
    /\ stripped = NotStripped

FenceNext == StripResponse

FenceSpec == FenceInit /\ [][FenceNext]_vars

\* the chunk loop run on every response stream of the bounded set
StreamInit ==
    /\ revision = 1 /\ openaiApiKey = TRUE /\ googleApiKey = TRUE /\ googleGenAI = TRUE
    /\ InitPromptIdle /\ InitIv /\ InitMp /\ InitBackend /\ InitVideoIdle
    /\ InitUpload /\ InitGa /\ InitMk /\ InitFence
    /\ chunkStream \in SeqUpTo(ChunkKinds, MaxStreamLen)
    /\ chunksRead = 0 /\ retained = <<>> /\ streamPc = "reading"

StreamNext == ReadChunk \/ EndOfStream

StreamSpec == StreamInit /\ [][StreamNext]_vars

\* the prompt-generation replies and the image streams of a session
SessionResponses ==
    {Response(FALSE, "none", <<>>)}
        \cup {Response(TRUE, "array", [i \in 1..k |-> StyleEntry(i)]) : k \in 3..4}
SessionStreams == {StreamError, [call |-> "ok", chunks |-> <<"image">>]}

\* the pages as mounted, with or without a signed-in user
PagesInit ==
    /\ InitConfig /\ InitPromptIdle /\ InitIv /\ InitMp /\ InitBackend
    /\ lastAnalysis = NoAnalysis /\ analysisRequests = 0 /\ InitVeo /\ InitGv /\ InitSession
    /\ step = 1 /\ uploadedImage = FALSE
    /\ user \in BOOLEAN
    /\ isGenerating = FALSE /\ generationResult = NoResult
    /\ videoPrompts = {} /\ selectedVideoPrompt = ""
    /\ isGeneratingVideo = FALSE /\ generatedVideo = "null"
    /\ toasts = {} /\ hgPc = "idle"

\* the generateImageVariations call of a handleImageUpload invocation, with
\* user?.id as userId (CreateAd.tsx:82)
HiuCall(resp) == uploadsInFlight > 0 /\ gaPc = "idle" /\ IvStart(user, resp)

\* the upload handlers of the two pages, with the variation generation the
\* CreateAd handler starts
UploadInit == PagesInit /\ includeVideoEffects = FALSE

UploadNext ==
    \/ \E size \in FileSizes : HandleImageUpload(size)
    \/ PreviewLoaded
    \/ RemoveImage
    \/ \E resp \in SessionResponses : HiuCall(resp)
    \/ \E stream \in SessionStreams, uploadOk \in BOOLEAN : IvPrompt(stream, uploadOk, TRUE)
    \/ HiuFinish
    \/ ContinueToConfigure
    \/ BackToUpload
    \/ \E size \in FileSizes : MkHandleImageUpload(size)
    \/ MkPreviewLoaded
    \/ CloseUploadModal

UploadSpec == UploadInit /\ [][UploadNext]_vars

\* generation sessions: one upload in CreateAd followed by handleGenerate,
\* or one call of generateAd, with a storage backend that accepts every
\* request
SessionInit == PagesInit /\ includeVideoEffects \in BOOLEAN

SessionNext ==
    \/ \E size \in FileSizes : filesSelected = 0 /\ HandleImageUpload(size)
    \/ PreviewLoaded
    \/ RemoveImage
    \/ CreateAnotherAd
    \/ \E resp \in SessionResponses : HiuCall(resp)
    \/ \E stream \in SessionStreams : IvPrompt(stream, TRUE, TRUE)
    \/ HiuFinish
    \/ /\ step = 2 /\ uploadsInFlight = 0 /\ SessionIdle
       /\ HgBegin
    \/ \E resp \in {"ok", "fail"} : HgAnalyze(resp)
    \/ \E resp \in {"ok", "fail"}, b \in 1..3, rejected \in BOOLEAN, job \in JobStates :
          GenerateVideoSimple(resp, b, rejected, job)
    \/ VeoWait
    \/ \E rejected \in BOOLEAN, answer \in JobStates : VeoPoll(rejected, answer)
    \/ \E fetchOk \in BOOLEAN : VeoAfterLoop(fetchOk)
    \/ \E save \in {"ok", "failed"} : HgAfterVideo(save)
    \/ \E skip \in BOOLEAN, video \in BOOLEAN : filesSelected = 0 /\ GenerateAd(skip, video)
    \/ \E resp \in {"ok", "fail"}, b \in 1..3, rejected \in BOOLEAN, job \in JobStates :
          GaAnalyze(resp, b, rejected, job)
    \/ \E resp \in SessionResponses : gaPc = "variations" /\ IvStart(FALSE, resp)
    \/ \E b \in 1..3, rejected \in BOOLEAN, job \in JobStates :
          GaAfterVariations(b, rejected, job)
    \/ GaAfterVideo
    \/ GaReturn

SessionSpec == SessionInit /\ [][SessionNext]_vars

\* the MarketingPost page: upload, and generation of a post
MarketingInit == PagesInit /\ includeVideoEffects = FALSE

MarketingNext ==
    \/ \E size \in FileSizes : MkHandleImageUpload(size)
    \/ MkPreviewLoaded
    \/ CloseUploadModal
    \/ GenerateMarketingPost
    \/ \E ok \in BOOLEAN : GmpRequest(ok)
    \/ gmpPc = "variations" /\ MpStart
    \/ \E stream \in Streams, uploadOk \in BOOLEAN : MpPrompt(stream, uploadOk)
    \/ \E uploadOk \in BOOLEAN, saveOk \in BOOLEAN, fetchOk \in BOOLEAN :
          GmpPersist(uploadOk, saveOk, fetchOk)
    \/ \E postId \in 1..MaxFiles, deleteError \in BOOLEAN, fetchOk \in BOOLEAN :
          DeletePost(postId, deleteError, fetchOk)

MarketingSpec == MarketingInit /\ [][MarketingNext]_vars

----------------------------------------------------------------------------
(* Claims *)

\* a prompt whose image was generated and kept
PromptSucceeded(e) == e.image /\ e.upload # "failed"

HasStyle(list, name) == \E k \in 1..Len(list) : list[k].style = name

\* C1: in every image variation run of either service, a failed prompt does
\* not keep the other prompts out of the result: once the run has ended,
\* every prompt whose generation succeeded has its entry in the returned list.
C1_FanOutIsolation ==
    /\ ivPc \in {"returned", "thrown"} =>
          \A j \in 1..Len(ivLog) :
              PromptSucceeded(ivLog[j]) =>
                  ivPc = "returned" /\ HasStyle(generatedImages, ivLog[j].name)
    /\ mpPc = "returned" =>
          \A j \in 1..Len(mpLog) :
              PromptSucceeded(mpLog[j]) => HasStyle(variations, mpLog[j].name)

\* C2: every video generation path that fails (generateVideoWithVeo under
\* generateVideoSimple, generateVideo under handleGenerateVideo) ends with a
\* result whose videoUrl is the sample video url, shows no error
\* notification, and no result carries an empty or undefined videoUrl.
C2_VideoAlwaysFallsBack ==
    /\ (veoPc = "thrown" \/ (veoPc = "returned" /\ veoError # "none")) =>
          veoPc = "returned" /\ veoResult.videoUrl = FallbackVideoUrl
    /\ veoPc = "returned" => ~Falsy(veoResult.videoUrl)
    /\ gvResult.status \in {"failed", "thrown"} =>
          /\ gvResult.videoUrl = FallbackVideoUrl
          /\ "Video generation failed" \notin toasts
    /\ gvPc = "returned" => ~Falsy(gvResult.videoUrl)

\* C3: when generateVideoWithVeo ends with the job still not done after the
\* 12 status checks, it has returned (not thrown) the sample video url and a
\* prompt that is a non-empty string.
C3_TimeoutReturnsFallback ==
    (veoPc \in {"returned", "thrown"} /\ attempts = maxAttempts /\ ~operation.done) =>
        /\ veoPc = "returned"
        /\ veoResult.videoUrl = FallbackVideoUrl
        /\ veoResult.videoPrompt \notin {"", Undefined}

\* C3 witness: a call that returned after 12 polls, none of which reported done
C3_Witness ==
    /\ veoPc = "returned" /\ attempts = maxAttempts /\ veoPolls = maxAttempts
    /\ ~operation.done /\ veoError = "timeout"

\* the polling loop of generateVideoWithVeo is running
VeoPolling == veoPc \in {"loop", "poll"}

C4_PollingBounds ==
    /\ veoPolls <= maxAttempts
    /\ attempts <= maxAttempts
    /\ veoWaits = veoPolls + (IF veoPc = "poll" THEN 1 ELSE 0)
    /\ veoPc = "poll" => ~operation.done /\ attempts < maxAttempts
    /\ veoError = "timeout" <=>
          (veoPc = "returned" /\ ~operation.done /\ attempts = maxAttempts)

\* C4: generateVideoWithVeo makes at most 12 status polls, one wait before
\* each, polls only while the job is not done, ends with the timeout error
\* exactly when the job is not done after the 12th poll, and its polling
\* loop always comes to an end.
C4_VeoPollingTerminates == []C4_PollingBounds /\ (VeoPolling ~> ~VeoPolling)

\* C4 witness: the ceiling is reached with the job not done
C4_Witness ==
    /\ veoPc = "loop" /\ attempts = maxAttempts /\ veoWaits = maxAttempts
    /\ ~operation.done

\* C5: generateVideo stops polling after finitely many status requests
\* whatever the job answers, so a running handleGenerateVideo always ends
\* and isGeneratingVideo is reset to false.
C5_GenerateVideoTerminates == isGeneratingVideo ~> ~isGeneratingVideo

\* the video generation call of handleGenerate has failed: generateVideoSimple
\* threw, or generateVideoWithVeo threw or caught an error
VideoCallFailed ==
    \/ hgPc = "simple"
    \/ hgPc = "video" /\ (veoPc = "thrown" \/ veoError # "none")

\* C6: when handleGenerate runs with the video toggle on and the video
\* generation call fails, the handler ends with a generationResult whose
\* videoUrl is the sample video url.
C6_HandleGenerateFallback ==
    [][(VideoCallFailed /\ hgPc' = "idle") =>
          (generationResult' # NoResult /\ generationResult'.videoUrl = FallbackVideoUrl)]_vars

\* C7: an invocation of analyzeImageWithGPT4oMini without the OpenAI key
\* fails with the configuration error, sends no request and returns nothing.
C7_MissingKeyFailsFast ==
    (lastAnalysis # NoAnalysis /\ ~openaiApiKey) =>
        lastAnalysis.outcome = "configError" /\ ~lastAnalysis.requestSent

\* C8: when the prompt generation request of a generateImageVariations call
\* has failed (request error, unparsable response, fewer than 3 entries),
\* the call has thrown and has issued no image request.
C8_NoDefaultPrompts ==
    (ivPc # "idle" /\ openaiApiKey
        /\ GenerateVariationPromptsWithOpenAI(promptResponse).thrown) =>
        /\ ivPc = "thrown"
        /\ imageRequests = <<>>

NonEmpty(x) == x \notin {"", Undefined}

\* C9: when generateVariationPromptsWithOpenAI returns, it returns exactly 3
\* records with non-empty name, prompt and description, made in order from
\* the first 3 entries of the response array; a response that is not an
\* array of at least 3 entries makes it throw.
C9_ExactlyThreePrompts ==
    promptResult.called =>
        /\ ~promptResult.thrown =>
              /\ Len(promptResult.prompts) = 3
              /\ \A i \in 1..3 :
                    LET r == promptResult.prompts[i]
                        e == promptResponse.items[i]
                    IN  /\ NonEmpty(r.name) /\ NonEmpty(r.prompt) /\ NonEmpty(r.description)
                        /\ e.name # "" => r.name = e.name
                        /\ e.prompt # "" => r.prompt = e.prompt
                        /\ e.description # "" => r.description = e.description
        /\ ~(promptResponse.ok /\ promptResponse.kind = "array"
                /\ Len(promptResponse.items) >= 3) => promptResult.thrown

\* C9 witness: a response of 4 entries, one of the first 3 without a name,
\* from which the call returned
C9_Witness ==
    /\ promptResult.called /\ ~promptResult.thrown
    /\ Len(promptResponse.items) = 4
    /\ \E i \in 1..3 : promptResponse.items[i].name = ""

HasBlobEntry(list, name) ==
    \E k \in 1..Len(list) : list[k].style = name /\ list[k].url.kind = "blob"

\* C10: in a variation run with a user, a failed upload of one variation
\* leaves that variation in the list with a blob url and does not end the
\* run, in either service.
C10_UploadFailureDegrades ==
    /\ \A j \in 1..Len(ivLog) :
          ivLog[j].upload = "failed" =>
              /\ HasBlobEntry(generatedImages, ivLog[j].name)
              /\ j = Len(ivLog) => ivPc # "thrown"
    /\ \A j \in 1..Len(mpLog) :
          mpLog[j].upload = "failed" => HasBlobEntry(variations, mpLog[j].name)

\* C11: a failure to persist a generated video (the object upload or the row
\* insert of generateVideo) does not fail the operation or withhold the
\* video: once the job is done with a video uri and its bytes are downloaded,
\* generateVideo returns status completed with a video url.
C11_PersistenceKeepsArtifact ==
    (/\ gvPc = "returned"
     /\ gvOperation.done
     /\ gvOperation.response = "uri"
     /\ gvResult.error # "fetch") =>
        /\ gvResult.status = "completed"
        /\ ~Falsy(gvResult.videoUrl)

\* C12: when a file larger than 10 MiB is chosen on the CreateAd page or on
\* the MarketingPost page, the upload handler shows 'File too large' and
\* nothing else happens: no reader is started, no request is issued, and the
\* page state (uploadedImage, imagePreview, step, imageVariations, the loading
\* flags, the upload modal) is what it was.
C12_OversizedFileRejected ==
    [][(filesSelected' # filesSelected /\ lastFile'.size > 10 * 1024 * 1024) =>
          /\ toasts' = {"File too large"}
          /\ UNCHANGED <<uploadedImage, imagePreview, step, imageVariations,
                         isLoadingVariations, isGenerating, isGeneratingVideo,
                         readerBusy, uploadsInFlight>>
          /\ UNCHANGED <<mkUploadedImage, mkImagePreview, mkReaderBusy,
                         showUploadModal, mkIsGenerating, gmpPc>>
          /\ UNCHANGED <<ivPc, imageRequests, promptSource, lastAnalysis,
                         storageObjects, imageVariationRows>>]_vars

\* C12 witness: on the CreateAd page a first file was accepted and its
\* variations are still loading when an oversized second file is rejected
C12_Witness ==
    /\ lastFile = [page |-> "CreateAd", size |-> maxFileSize + 1]
    /\ filesSelected = 2
    /\ toasts = {"File too large"}
    /\ uploadedImage /\ isLoadingVariations /\ uploadsInFlight = 1

\* C13: in every generation session the stages are dependency-ordered: when
\* the prompt-generation request of a session is issued an analysis call has
\* completed successfully, and when an image request is issued the prompt
\* generation has completed.
C13_StagesInOrder ==
    /\ (ivPc # "idle" /\ openaiApiKey) => lastAnalysis.outcome = "analysis"
    /\ imageRequests # <<>> => promptSource # "none"

\* the notifications a handleGenerate run shows when the video is genuine
SuccessToasts == {"Generation complete!", "Success"}

\* C14: every terminal outcome of a user action of the CreateAd page shows a
\* notification: the end of handleImageUpload (success or failure) and the
\* end of handleGenerate, and an outcome that uses the fallback video shows
\* a notification that a genuine success does not show.
C14_EveryOutcomeNotified ==
    [][/\ uploadsInFlight' < uploadsInFlight => toasts' # {}
       /\ (hgPc # "idle" /\ hgPc' = "idle") =>
             /\ toasts' # {}
             /\ generationResult'.videoUrl = FallbackVideoUrl =>
                   ~(toasts' \subseteq SuccessToasts)]_vars

\* C15: a generateAd call that asks for video effects while no Google key is
\* configured ends in a surfaced failure or with a video that is labelled a
\* placeholder: it does not return status completed without a video.
C15_MissingKeyNotSuccess ==
    (gaPc = "returned" /\ gaRequest.includeVideoEffects /\ ~googleApiKey) =>
        ~(gaResult.status = "completed" /\ Falsy(gaResult.videoUrl))

\* C16: in the CreateAd wizard a validation or configuration error is
\* notified and blocks progression: an oversized file, or an upload whose
\* variation run fails because the Google key is missing, shows its
\* notification, leaves step as it was and starts no later stage.
C16_ErrorsBlockProgression ==
    [][/\ (/\ filesSelected' # filesSelected
           /\ lastFile'.page = "CreateAd"
           /\ lastFile'.size > 10 * 1024 * 1024) =>
              /\ "File too large" \in toasts'
              /\ step' = step
              /\ uploadsInFlight' = uploadsInFlight
       /\ (uploadsInFlight' < uploadsInFlight /\ ivPc = "thrown" /\ ~googleApiKey) =>
              /\ "Generation Error" \in toasts'
              /\ step' = step
              /\ hgPc' = "idle" /\ veoPc' = "idle"]_vars

\* C17: the loading flag of handleImageUpload is true whenever a variation
\* call of one of its invocations is in flight, overlapping invocations
\* included, and false once none is in flight.
C17_LoadingFlagTracksCalls == isLoadingVariations <=> uploadsInFlight > 0

\* the cleaning code of aiService keeps the content and is idempotent
AiFenceStrippingPreserves ==
    stripped.done =>
        /\ JsonParse(stripped.ai) = JsonParse(fenceText.json)
        /\ stripped.aiTwice = stripped.ai
        /\ fenceText.fence = "none" => stripped.ai = Trim(fenceText.json)

\* C18: fence stripping in the completion-response parsers of aiService and
\* of the marketing service is content-preserving and idempotent: a JSON
\* text wrapped in a json fence or a plain fence, with whitespace around it,
\* parses to the value of the unwrapped text, stripping twice gives what
\* stripping once gives, and an unwrapped reply is only trimmed.
C18_FenceStrippingPreserves ==
    /\ AiFenceStrippingPreserves
    /\ stripped.done =>
          /\ JsonParse(stripped.marketing) = JsonParse(fenceText.json)
          /\ stripped.marketingTwice = stripped.marketing
          /\ fenceText.fence = "none" => stripped.marketing = Trim(fenceText.json)

\* a generateImageVariations call has returned: its prompt generation gave
\* 3 styles and each of the 3 image calls yielded an image
ThreeImagesGenerated ==
    /\ ivPc = "returned"
    /\ promptSource = "openai"
    /\ Len(variationPrompts) = 3
    /\ Len(ivLog) = 3
    /\ \A j \in 1..3 : ivLog[j].image

\* exactly 3 entries, in prompt order, each with the name of its prompt
ThreeInPromptOrder(list) ==
    /\ Len(list) = 3
    /\ \A i \in 1..3 : list[i].style = variationPrompts[i].name

\* no video request is made while the toggle of the running session is off
C19_NoVideoRequest ==
    /\ (hgPc # "idle" /\ ~includeVideoEffects) => veoPc = "idle"
    /\ (gaPc # "idle" /\ ~gaRequest.includeVideoEffects) => veoPc = "idle"

\* what the session holds when the variations are taken, and at its end
C19_SessionHolds ==
    /\ ThreeImagesGenerated => ThreeInPromptOrder(generatedImages)
    /\ (ThreeImagesGenerated /\ uploadsInFlight' < uploadsInFlight) =>
          imageVariations' = generatedImages
    /\ (/\ ThreeImagesGenerated
        /\ gaPc = "variations" /\ gaPc' # "variations"
        /\ ~gaRequest.includeVideoEffects) =>
          /\ gaPc' = "returned"
          /\ gaResult' = GaCompleted(generatedImages, Undefined, Undefined)
    /\ (/\ hgPc # "idle" /\ hgPc' = "idle"
        /\ ~includeVideoEffects
        /\ lastAnalysis'.outcome = "analysis") =>
          /\ generationResult'.status = "completed"
          /\ generationResult'.generatedImages = imageVariations
          /\ generationResult'.videoUrl = Undefined
          /\ generatedVideo' = generatedVideo

\* C19: for an upload within the size limit where the analysis succeeds, the
\* prompt generation returns 3 named styles and the 3 image calls succeed,
\* with the video toggle off, the session (CreateAd upload followed by
\* handleGenerate, or one generateAd call) holds exactly 3 image variations,
\* in prompt order and each with the name of its prompt as style, no video
\* request is issued and videoUrl stays undefined.
C19_ThreeVariationsNoVideo == []C19_NoVideoRequest /\ [][C19_SessionHolds]_vars

\* C19 witness: a generateAd call with the toggle off has returned completed
\* with the three variations of its three prompts and no video
C19_Witness ==
    /\ gaPc = "returned"
    /\ ~gaRequest.includeVideoEffects /\ ~gaRequest.skipVariations
    /\ gaResult.status = "completed"
    /\ Len(gaResult.generatedImages) = 3
    /\ \A i \in 1..3 : gaResult.generatedImages[i].style = StyleEntry(i).name
    /\ gaResult.videoUrl = Undefined
    /\ lastAnalysis.outcome = "analysis"

\* what a step may do to the rows of videos
C20_RowsStep ==
    /\ videoRows \subseteq videoRows'
    /\ videoRows' # videoRows =>
          /\ gvPc = "loop" /\ gvOperation.done /\ gvOperation.response = "uri"
          /\ gvPc' = "returned"
          /\ gvResult'.status = "completed"
          /\ gvResult'.videoUrl = SupabaseVideoUrl
          /\ "generated-videos" \in videoObjects'
          /\ videoRows' = videoRows \cup {[video_url |-> SupabaseVideoUrl,
                                          status |-> "completed"]}
    /\ (gvPc # "returned" /\ gvPc' = "returned" /\ gvResult'.status = "failed") =>
          videoRows' = videoRows

\* C20: a row of videos is written only for a completed video generation:
\* generateVideo inserts it, with status completed, in the step that follows
\* a job reported done with a video uri, the download and the object upload;
\* a failed attempt inserts no row, and no step changes or removes a row.
C20_RowsOnlyForCompleted ==
    [](\A r \in videoRows : r.status = "completed") /\ [][C20_RowsStep]_vars

\* C20 witness: a generateVideo call has returned completed and its row is
\* in videos
C20_Witness ==
    /\ gvPc = "returned"
    /\ gvResult.status = "completed"
    /\ videoRows = {[video_url |-> SupabaseVideoUrl, status |-> "completed"]}

\* C21: the analysis of an uploaded image is requested at most once: a run
\* of handleGenerate (with the generateVideoSimple call it makes) or a call
\* of generateAd sends at most one analysis request for its image, and the
\* video generation reuses the result.
C21_AnalysisOncePerImage == analysisRequests <= 1

\* C22: an explicit reset of the CreateAd wizard (Create Another Ad, or
\* Remove on the uploaded image) discards the session: after it there are no
\* image variations, no generation result, no video prompts, no selected
\* video prompt and no generated video.
C22_ResetDiscardsSession ==
    [][((step = 4 /\ step' = 1) \/ (uploadedImage /\ ~uploadedImage')) =>
          /\ imageVariations' = <<>>
          /\ generationResult' = NoResult
          /\ videoPrompts' = {}
          /\ selectedVideoPrompt' = ""
          /\ generatedVideo' = "null"]_vars

\* the prompt generation of the running generateImageVariations call failed
PromptGenerationFailed ==
    openaiApiKey /\ GenerateVariationPromptsWithOpenAI(promptResponse).thrown

\* what generateAd does when a stage has settled
C23_GenerateAdStep ==
    /\ (gaPc # "returned" /\ gaPc' = "returned") =>
          /\ gaResult'.status \in {"completed", "failed"}
          /\ gaResult'.status = "failed" => gaResult' = GaFailed
          /\ gaResult'.status = "completed" =>
                lastAnalysis' # NoAnalysis /\ ~AnalysisThrows(lastAnalysis')
    /\ (gaPc = "variations" /\ gaPc' # "variations") =>
          IF \/ ivPc = "thrown"
             \/ PromptGenerationFailed
             \/ \E j \in 1..Len(ivLog) : ~ivLog[j].image
          THEN gaPc' = "returned" /\ gaResult' = GaFailed
          ELSE Len(generatedImages) = Len(variationPrompts)

\* C23: generateAd never throws: a failure of the analysis, of the prompt
\* generation or of an image generation makes it return status failed with
\* no generated content, and it returns completed only when the analysis
\* succeeded and, unless skipVariations is set, every variation was
\* generated.
C23_GenerateAdFailsCleanly == [][C23_GenerateAdStep]_vars

C25_UploadEndsWithThree ==
    [][uploadsInFlight' < uploadsInFlight =>
          /\ Len(imageVariations') = 3
          /\ \/ imageVariations' = FallbackVariations
             \/ \A i \in 1..3 : imageVariations'[i].url.name = imageVariations'[i].style
          /\ ~isLoadingVariations'
          /\ step' = 2]_vars

\* C25 witness: the variation run failed after its first image had been
\* generated and stored, and the page shows three copies of the original
C25_Witness ==
    /\ filesSelected = 1 /\ uploadsInFlight = 0
    /\ step = 2 /\ ~isLoadingVariations
    /\ imageVariations = FallbackVariations
    /\ "Generation Error" \in toasts
    /\ storageObjects # {}

(* C26: once every invocation of handleImageUpload has finished, the        *)
(* displayed imageVariations are the ones produced for the file that        *)
(* uploadedImage holds; the result of an earlier file never replaces them.  *)
(* CreateAd.tsx 85 and 103 set imageVariations with no test of which file   *)
(* the invocation was started for, so the invocation that settles last wins.*)
C26_LatestFileShown ==
    (pendingFiles = {} /\ selectedFile # 0 /\ shownFor # 0) => shownFor = selectedFile

(* C27: in every reachable state of the CreateAd wizard with step >= 2 an   *)
(* uploaded image is present.  The Remove button (393-399) clears           *)
(* uploadedImage without cancelling the variation call in flight, whose     *)
(* finally block (105-108) then moves the wizard to step 2.                 *)
C27_ImagePresentFromStepTwo == step >= 2 => uploadedImage

(* C28: every image_variations row written by generateImageVariations has  *)
(* as generated_image_url the public URL of an object that was uploaded to  *)
(* storage; a blob URL is never written to the database.  When              *)
(* saveImageToSupabase throws, the catch (aiService.ts 407-413) sets        *)
(* imageUrl to a blob URL and saveImageVariationToDatabase (421-430) is     *)
(* still called with it.                                                    *)
C28_RowsHoldStoredPublicUrls ==
    \A r \in imageVariationRows :
        /\ r.generated_image_url.kind = "public"
        /\ r.generated_image_url.name \in storageObjects

(* C29: generateMarketingPost is all-or-nothing towards the backend: when   *)
(* it fails it leaves no newly uploaded storage object and no row; when it  *)
(* succeeds exactly one row was inserted and every variation URL in it      *)
(* refers to an uploaded object.  The variations are uploaded in step 3     *)
(* (marketingpostService.ts 61, 236) before the original image is uploaded  *)
(* (65) and the row inserted (82), and the catch of 86-89 deletes nothing.  *)
C29_CallEnds == gmpPc # "idle" /\ gmpPc' = "idle"

C29_UploadedByCall == {variations[i].url.name : i \in 1..Len(variations)}

C29_AllOrNothingStep ==
    C29_CallEnds =>
        IF "Success!" \in toasts'
        THEN /\ marketingPostRows' = marketingPostRows + 1
             /\ C29_UploadedByCall \subseteq storageObjects'
             /\ OriginalObject \in storageObjects'
        ELSE /\ marketingPostRows' = marketingPostRows
             /\ C29_UploadedByCall = {}
             /\ storageObjects' = storageObjects

C29_AllOrNothing == [][C29_AllOrNothingStep]_vars

(* C30: after deletePost has reported 'Deleted' for a post, that post is    *)
(* absent from what getMarketingPosts returns for the user, under the       *)
(* policies the setup SQL defines for image_variations.  The script defines *)
(* SELECT, INSERT and UPDATE policies and none for DELETE (part_006 56-59), *)
(* so the delete of marketingpostService.ts 371-379 removes no row and      *)
(* reports no error.                                                        *)
C30_DeletedPostAbsent ==
    deleteReported \cap GetMarketingPosts(marketingPostRows, deletedPosts) = {}

====
